---- MODULE Spec2Model ----
(***************************************************************************)
(* A model of src/src/background.ts, the service worker of the Prolific   *)
(* Automatic Studies extension.                                            *)
(*                                                                         *)
(* Every handler is an async function.  A handler runs synchronously up   *)
(* to its next `await`; the awaited browser operation takes effect and    *)
(* the handler continues in ONE step of the model (the resumption).       *)
(* Handlers of different events interleave at these resumptions only.     *)
(*                                                                         *)
(* Strings that the code inspects (titles, URLs, badge text) are tuples   *)
(* of one-character strings, so that matching, trimming and number        *)
(* formatting are computed rather than assumed.  A value that may be      *)
(* `undefined` is a tuple of length 0 (undefined) or 1 (the value).       *)
(***************************************************************************)
EXTENDS Integers, Sequences, FiniteSets, TLC

\* Number of events whose handlers may overlap in one run.
NumHandlers == 2

\* Number of times the user changes a setting during one run.
MaxSettingChanges == 1

\* Number of times the user clicks an alert during one run.
MaxClicks == 1

Procs == 1..NumHandlers

-----------------------------------------------------------------------------
(* Text helpers                                                            *)

Digits == <<"0", "1", "2", "3", "4", "5", "6", "7", "8", "9">>

IsDigit(c) == \E d \in 1..10 : Digits[d] = c

DigitValue(c) == (CHOOSE d \in 1..10 : Digits[d] = c) - 1

\* the WhiteSpace and LineTerminator code points String.prototype.trim()
\* strips: space, TAB, LF, CR, FF, then U+000B (VT), U+00A0 (NBSP), U+1680 and
\* U+FEFF written as the characters themselves.  The remaining ones (U+2000
\* to U+200A, U+2028, U+2029, U+202F, U+205F, U+3000) are rejected by the
\* lexer inside a string and cannot occur in a title of this model.
WhiteSpace == {" ", "\t", "\n", "\r", "\f", "", " ", " ", "﻿"}

IsSpace(c) == c \in WhiteSpace

\* parseInt on a non-empty run of decimal digits
RECURSIVE parseInt(_)
parseInt(s) ==
    IF s = <<>> THEN 0
    ELSE parseInt(SubSeq(s, 1, Len(s) - 1)) * 10 + DigitValue(s[Len(s)])

\* Number.prototype.toString() of a non-negative integer
RECURSIVE toString(_)
toString(n) ==
    IF n < 10 THEN <<Digits[n + 1]>>
    ELSE toString(n \div 10) \o <<Digits[(n % 10) + 1]>>

\* String.prototype.trim()
RECURSIVE trimStart(_)
trimStart(s) ==
    IF s # <<>> /\ IsSpace(s[1]) THEN trimStart(Tail(s)) ELSE s

RECURSIVE trimEnd(_)
trimEnd(s) ==
    IF s # <<>> /\ IsSpace(s[Len(s)]) THEN trimEnd(SubSeq(s, 1, Len(s) - 1)) ELSE s

trim(s) == trimEnd(trimStart(s))

\* String.prototype.includes(sub)
includes(s, sub) ==
    \E i \in 1..(Len(s) - Len(sub) + 1) : SubSeq(s, i, i + Len(sub) - 1) = sub

\* The matches of /\((\d+)\)/ in title, as <<index of "(", index of ")">>
TitleMatches(title) ==
    { m \in (1..Len(title)) \X (1..Len(title)) :
        /\ m[1] + 1 < m[2]
        /\ title[m[1]] = "("
        /\ title[m[2]] = ")"
        /\ \A k \in (m[1] + 1)..(m[2] - 1) : IsDigit(title[k]) }

getNumberFromTitle(title) ==
    LET ms == TitleMatches(title)
    IN  IF ms = {} THEN 0
        ELSE LET m == CHOOSE x \in ms : \A y \in ms : x[1] <= y[1]
             IN  parseInt(SubSeq(title, m[1] + 1, m[2] - 1))

-----------------------------------------------------------------------------
(* CONFIG and the inputs                                                   *)

PROLIFIC_URL ==
    <<"h","t","t","p","s",":","/","/","a","p","p",".",
      "p","r","o","l","i","f","i","c",".","c","o","m","/">>

WELCOME_URL ==
    <<"h","t","t","p","s",":","/","/","s","p","i","n","3","1","1",".",
      "g","i","t","h","u","b",".","i","o","/",
      "P","r","o","l","i","f","i","c","A","u","t","o","m","a","t","i","c",
      "S","t","u","d","i","e","s","/">>

EmptyStateLabel == <<"P","r","o","l","i","f","i","c">>

DefaultAudio == "alert1.mp3"

BadgeColor == "#9dec14"

TitleNoNumber == <<"P"," ","(","a",")">>
TitleOne      == <<"P"," ","(","1",")">>
TitleTwelve   == <<"(","a",")"," ","(","1","2",")","(","7",")">>

Titles == { EmptyStateLabel, TitleNoNumber, TitleOne, TitleTwelve }

WatchedTab == PROLIFIC_URL \o <<"s","t","u","d","i","e","s">>
OtherTab   == <<"h","t","t","p","s",":","/","/","x",".","i","o","/">>

Urls == { WatchedTab, OtherTab, <<>> }

AudioFiles == { "alert1.mp3", "alert2.mp3" }

\* chrome.tabs.onUpdated inputs: tab.url, tab.status, changeInfo.title
\* (<<>> is an absent title or url).  Events that miss the url or status
\* condition are delivered with one title only.
TabEvents ==
    { e \in [kind : {"tab"}, url : Urls, status : {"loading", "complete"},
             title : Titles \cup {<<>>}, target : {""}, type : {""}, reason : {""}] :
        (e.url # WatchedTab \/ e.status # "complete") => e.title = TitleOne }

\* chrome.runtime.onMessage inputs: message.target, message.type
MsgEvents ==
    { e \in [kind : {"msg"}, url : {<<>>}, status : {""}, title : {<<>>},
             target : {"background", "offscreen-doc"},
             type : {"play-sound", "show-notification", "clear-badge", "other"},
             reason : {""}] :
        e.target # "background" => e.type = "play-sound" }

\* chrome.runtime.onInstalled inputs: details.reason
InstalledEvents ==
    [kind : {"installed"}, url : {<<>>}, status : {""}, title : {<<>>},
     target : {""}, type : {""}, reason : {"install", "update"}]

\* chrome.runtime.onStartup has no input
StartupEvent ==
    [kind |-> "startup", url |-> <<>>, status |-> "", title |-> <<>>,
     target |-> "", type |-> "", reason |-> ""]

NoEvent ==
    [kind |-> "none", url |-> <<>>, status |-> "", title |-> <<>>,
     target |-> "", type |-> "", reason |-> ""]

-----------------------------------------------------------------------------
(* State                                                                   *)

VARIABLES
    store,                   \* chrome.storage.sync, key -> <<>> or <<value>>
    creating,                \* let creating: 0 is null/undefined, else a promise
    volume,                  \* let volume
    audio,                   \* let audio
    shouldSendNotification,  \* let shouldSendNotification
    shouldPlayAudio,         \* let shouldPlayAudio
    previousTitle,           \* let previousTitle
    promises,                \* the promises returned by createDocument, in call order
    surface,                 \* an offscreen document exists
    badgeText,               \* chrome.action badge text
    badgeColor,              \* chrome.action badge background colour
    timers,                  \* updateBadge's setTimeout callbacks scheduled and not yet run
    clearing,                \* timer callbacks suspended at their `await setBadgeText`
    welcomeTimers,           \* handleInstallation's setTimeout callbacks not yet run
    alerts,                  \* notifications created so far
    changes,                 \* setting changes made so far
    clicks,                  \* the alert click events delivered, in order
    clears,                  \* the ids passed to chrome.notifications.clear, in order
    tabs,                    \* the chrome.tabs.create calls made, in order
    pc,                      \* per handler: the await it is suspended at
    ev,                      \* per handler: the event it was invoked with
    loc,                     \* per handler: its local constants and parameters
    obs                      \* per handler: what it has done so far

vars ==
    <<store, creating, volume, audio, shouldSendNotification, shouldPlayAudio,
      previousTitle, promises, surface, badgeText, badgeColor, timers, clearing,
      welcomeTimers, alerts, changes, clicks, clears, tabs, pc, ev, loc, obs>>

alertVars == <<clicks, clears, tabs>>

timerVars == <<clearing, welcomeTimers>>

moduleVars == <<volume, audio, shouldSendNotification, shouldPlayAudio, previousTitle>>

Finished == {"done", "failed"}

InProgress(h) == pc[h] \notin (Finished \cup {"idle"})

\* getValueFromStorage(key, defaultValue), at the moment the read completes
getValueFromStorage(key, defaultValue) ==
    IF store[key] # <<>> THEN store[key][1] ELSE defaultValue

\* (percent) / 100 as the fraction <<numerator, denominator>>
VolumeFraction(percent) == <<percent, 100>>

NoLoc ==
    [previousNumber |-> 0, currentNumber |-> 0, counter |-> 0,
     ownAudio |-> <<>>, reqAudio |-> <<>>, reqVolume |-> <<>>, awaiting |-> 0]

NoObs ==
    [passed |-> FALSE, notified |-> FALSE, sawEmpty |-> FALSE, setup |-> "none",
     played |-> FALSE, counted |-> 0, solo |-> FALSE]

\* The store outlives the worker: it starts with the two switches either never
\* written (they read as their default, true) or switched off by the user.
InitialStores ==
    [prolificTitle : {<<>>}, counter : {<<>>}, showNotification : {<<>>, <<FALSE>>},
     audioActive : {<<>>, <<FALSE>>}, audio : {<<>>}, volume : {<<>>},
     openProlific : {<<>>}]

Init ==
    /\ store \in InitialStores
    /\ creating = 0
    /\ volume = <<>>
    /\ audio = <<>>
    /\ shouldSendNotification = <<>>
    /\ shouldPlayAudio = <<>>
    /\ previousTitle = <<>>
    /\ promises = <<>>
    /\ surface = FALSE
    /\ badgeText = <<>>
    /\ badgeColor = ""
    /\ timers = 0
    /\ clearing = 0
    /\ welcomeTimers = 0
    /\ alerts = 0
    /\ changes = 0
    /\ clicks = <<>>
    /\ clears = <<>>
    /\ tabs = <<>>
    /\ pc = [h \in Procs |-> "idle"]
    /\ ev = [h \in Procs |-> NoEvent]
    /\ loc = [h \in Procs |-> NoLoc]
    /\ obs = [h \in Procs |-> NoObs]

-----------------------------------------------------------------------------
(* Event delivery.  Handlers are numbered in the order their events arrive. *)

Deliverable(h) ==
    /\ pc[h] = "idle"
    /\ h > 1 => pc[h - 1] # "idle"

\* obs after the event of h arrives: h runs alone iff nobody else is running,
\* and whoever is running no longer runs alone
ObsOnDelivery(h) ==
    [k \in Procs |->
        IF k = h THEN [NoObs EXCEPT !.solo = \A j \in Procs \ {h} : ~InProgress(j)]
        ELSE IF InProgress(k) THEN [obs[k] EXCEPT !.solo = FALSE]
        ELSE obs[k]]

\* A variant that creates no second alert while one was already created.
sendNotificationOnce(h) ==
    /\ alerts' = IF alerts = 0 THEN 1 ELSE alerts
    /\ obs' = [obs EXCEPT ![h].notified = TRUE]

\* sendNotification()
sendNotification(h) ==
    /\ alerts' = alerts + 1
    /\ obs' = [obs EXCEPT ![h].notified = TRUE]

\* handleTabUpdate called: runs up to `await getValueFromStorage(PROLIFIC_TITLE)`
TabUpdated(h, e) ==
    /\ Deliverable(h)
    /\ e \in TabEvents
    /\ ev' = [ev EXCEPT ![h] = e]
    /\ pc' = [pc EXCEPT ![h] = "getTitle"]
    /\ obs' = ObsOnDelivery(h)
    /\ UNCHANGED <<timerVars, alertVars, changes, store, creating, moduleVars, promises, surface, badgeText,
                   badgeColor, timers, alerts, loc>>

\* A variant of the gate that does not wait for the page to finish loading.
TitleGateAnyStatus(e, previous) ==
    /\ includes(e.url, PROLIFIC_URL)
    /\ e.title # <<>>
    /\ e.title # previous

\* the gate of handleTabUpdate
TitleGate(e, previous) ==
    /\ includes(e.url, PROLIFIC_URL)
    /\ e.title # <<>>
    /\ e.title # previous
    /\ e.status = "complete"

\* A variant that also dispatches when the count did not change.
QualifiesNonStrict(newTitle, previousNumber, currentNumber) ==
    /\ trim(newTitle) # EmptyStateLabel
    /\ currentNumber >= previousNumber

\* the test of handleTitleChange that decides whether the increase is dispatched
Qualifies(newTitle, previousNumber, currentNumber) ==
    /\ trim(newTitle) # EmptyStateLabel
    /\ currentNumber > previousNumber

\* A variant in which the module variable still holds what an earlier
\* handler assigned when this handler uses it.
PreviousTitleStale(assigned, before) == IF before = <<>> THEN assigned ELSE before[1]

\* `previousTitle` as lines 81 and 108 read it: they run in the same
\* synchronous stretch as the assignment of line 79, so they read that value
PreviousTitleAtUse(assigned, before) == assigned

\* resumption of line 79: assign previousTitle, test the gate, and if it passes
\* run handleTitleChange up to `await chrome.storage.sync.set`
ResumeGetTitle(h) ==
    /\ pc[h] = "getTitle"
    /\ LET assigned == getValueFromStorage("prolificTitle", EmptyStateLabel)
           previous == PreviousTitleAtUse(assigned, previousTitle)
       IN  /\ previousTitle' = <<assigned>>
           /\ IF TitleGate(ev[h], previous)
              THEN /\ loc' = [loc EXCEPT
                                ![h].previousNumber = getNumberFromTitle(previous),
                                ![h].currentNumber = getNumberFromTitle(ev[h].title)]
                   /\ obs' = [obs EXCEPT ![h].passed = TRUE]
                   /\ pc' = [pc EXCEPT ![h] = "setTitle"]
              ELSE /\ pc' = [pc EXCEPT ![h] = "done"]
                   /\ UNCHANGED <<loc, obs>>
    /\ UNCHANGED <<timerVars, alertVars, changes, store, creating, volume, audio, shouldSendNotification,
                   shouldPlayAudio, promises, surface, badgeText, badgeColor,
                   timers, alerts, ev>>

\* resumption of line 111: the baseline is written, then the test of line 113
ResumeSetTitle(h) ==
    /\ pc[h] = "setTitle"
    /\ store' = [store EXCEPT !.prolificTitle = <<ev[h].title>>]
    /\ pc' = [pc EXCEPT ![h] =
                IF Qualifies(ev[h].title, loc[h].previousNumber, loc[h].currentNumber)
                THEN "getShow" ELSE "done"]
    /\ UNCHANGED <<timerVars, alertVars, changes, creating, moduleVars, promises, surface, badgeText, badgeColor,
                   timers, alerts, ev, loc, obs>>

\* resumption of line 114: the alert, if the setting allows it
ResumeGetShow(h) ==
    /\ pc[h] = "getShow"
    /\ LET show == getValueFromStorage("showNotification", TRUE)
       IN  /\ shouldSendNotification' = <<show>>
           /\ IF show THEN sendNotification(h) ELSE UNCHANGED <<alerts, obs>>
    /\ pc' = [pc EXCEPT ![h] = "getAudioActive"]
    /\ UNCHANGED <<timerVars, alertVars, changes, store, creating, volume, audio, shouldPlayAudio, previousTitle,
                   promises, surface, badgeText, badgeColor, timers, ev, loc>>

\* updateCounterAndBadge(count) called: runs up to its first storage read
CallUpdateCounterAndBadge(h) ==
    /\ obs' = [obs EXCEPT ![h].counted = loc[h].currentNumber - loc[h].previousNumber]
    /\ pc' = [pc EXCEPT ![h] = "getCounter"]

\* resumption of line 119
ResumeGetAudioActive(h) ==
    /\ pc[h] = "getAudioActive"
    /\ LET play == getValueFromStorage("audioActive", TRUE)
       IN  /\ shouldPlayAudio' = <<play>>
           /\ IF play
              THEN /\ pc' = [pc EXCEPT ![h] = "getAudio"]
                   /\ UNCHANGED obs
              ELSE CallUpdateCounterAndBadge(h)
    /\ UNCHANGED <<timerVars, alertVars, changes, store, creating, volume, audio, shouldSendNotification,
                   previousTitle, promises, surface, badgeText, badgeColor, timers,
                   alerts, ev, loc>>

\* resumption of line 101 (handlePlaySound) or line 121 (handleTitleChange)
ResumeGetAudio(h) ==
    /\ pc[h] = "getAudio"
    /\ audio' = <<getValueFromStorage("audio", DefaultAudio)>>
    /\ loc' = [loc EXCEPT ![h].ownAudio = <<getValueFromStorage("audio", DefaultAudio)>>]
    /\ pc' = [pc EXCEPT ![h] = "getVolume"]
    /\ UNCHANGED <<timerVars, alertVars, changes, store, creating, volume, shouldSendNotification,
                   shouldPlayAudio, previousTitle, promises, surface, badgeText,
                   badgeColor, timers, alerts, ev, obs>>

\* resumption of line 102 or 122, then playAudio(audio, volume) up to
\* `await chrome.runtime.getContexts` in setupOffscreenDocument
ResumeGetVolume(h) ==
    /\ pc[h] = "getVolume"
    /\ LET v == VolumeFraction(getValueFromStorage("volume", 100))
       IN  /\ volume' = <<v>>
           /\ loc' = [loc EXCEPT
                        ![h].reqAudio = IF audio = <<>> THEN <<DefaultAudio>> ELSE audio,
                        ![h].reqVolume = <<v>>]
    /\ pc' = [pc EXCEPT ![h] = "getContexts"]
    /\ UNCHANGED <<timerVars, alertVars, changes, store, creating, audio, shouldSendNotification, shouldPlayAudio,
                   previousTitle, promises, surface, badgeText, badgeColor, timers,
                   alerts, ev, obs>>

-----------------------------------------------------------------------------
(* playAudio and setupOffscreenDocument                                    *)

\* setupOffscreenDocument returned: playAudio builds req and calls
\* chrome.runtime.sendMessage({type: 'play-sound', target: 'offscreen-doc', data: req})
SetupReturned(h) ==
    /\ obs' = [obs EXCEPT ![h].setup = "ok", ![h].played = TRUE]
    /\ pc' = [pc EXCEPT ![h] = "sendMessage"]

\* A variant under which a failed setup is swallowed and the request is sent.
SetupThrewButPlayed(h) ==
    /\ obs' = [obs EXCEPT ![h].setup = "err", ![h].played = TRUE]
    /\ pc' = [pc EXCEPT ![h] = "sendMessage"]

\* setupOffscreenDocument threw: playAudio and the handler reject
SetupThrew(h) ==
    /\ obs' = [obs EXCEPT ![h].setup = "err"]
    /\ pc' = [pc EXCEPT ![h] = "failed"]

\* A variant that never finds an existing document.
ContextsFoundNever(n) == FALSE

\* `if (existingContexts.length > 0) return;`
ContextsFound(n) == n > 0

\* existingContexts.length: the offscreen documents with the given path
ExistingContexts == IF surface THEN 1 ELSE 0

\* A variant that leaves the lock unset after starting a creation.
LockAfterCreateUnset(p) == 0

\* `creating = chrome.offscreen.createDocument(...)`
LockAfterCreate(p) == p

\* A variant that resumes a waiter before the creation has settled.
SettledOrPending(state) == TRUE

\* `await creating` resumes once the promise has settled
Settled(state) == state # "pending"

\* A variant that starts a creation whether or not one is in flight.
LockTestAlwaysFree(lock) == FALSE

\* `if (creating)`: a promise, settled or not, is truthy; null and undefined are not
LockHeld(lock) == lock # 0

\* resumption of line 176: introspection, then the test and the setting of the lock
ResumeGetContexts(h) ==
    /\ pc[h] = "getContexts"
    /\ IF ContextsFound(ExistingContexts)
       THEN /\ SetupReturned(h)
            /\ UNCHANGED <<creating, promises, loc>>
       ELSE IF LockHeld(creating)
       THEN /\ loc' = [loc EXCEPT ![h].awaiting = creating]
            /\ obs' = [obs EXCEPT ![h].sawEmpty = TRUE]
            /\ pc' = [pc EXCEPT ![h] = "awaitCreating"]
            /\ UNCHANGED <<creating, promises>>
       ELSE /\ promises' = Append(promises, "pending")
            /\ creating' = LockAfterCreate(Len(promises) + 1)
            /\ loc' = [loc EXCEPT ![h].awaiting = Len(promises) + 1]
            /\ obs' = [obs EXCEPT ![h].sawEmpty = TRUE]
            /\ pc' = [pc EXCEPT ![h] = "awaitCreated"]
    /\ UNCHANGED <<timerVars, alertVars, changes, store, moduleVars, surface, badgeText, badgeColor, timers,
                   alerts, ev>>

\* chrome.offscreen.createDocument settles: the document exists, or the call failed
CreationSettles(p, ok) ==
    /\ p \in DOMAIN promises
    /\ promises[p] = "pending"
    /\ promises' = [promises EXCEPT ![p] = IF ok THEN "fulfilled" ELSE "rejected"]
    /\ surface' = (surface \/ ok)
    /\ UNCHANGED <<timerVars, alertVars, changes, store, creating, moduleVars, badgeText, badgeColor, timers,
                   alerts, pc, ev, loc, obs>>

\* resumption of line 184: a caller that found the lock set
ResumeAwaitCreating(h) ==
    /\ pc[h] = "awaitCreating"
    /\ Settled(promises[loc[h].awaiting])
    /\ IF promises[loc[h].awaiting] = "rejected" THEN SetupThrew(h) ELSE SetupReturned(h)
    /\ UNCHANGED <<timerVars, alertVars, changes, store, creating, moduleVars, promises, surface, badgeText,
                   badgeColor, timers, alerts, ev, loc>>

\* lines 192-193: `await creating; creating = null;` - the assignment is
\* reached only when the awaited promise fulfils
LockAfterAwait(lock, outcome) == IF outcome = "fulfilled" THEN 0 ELSE lock

\* resumption of line 192: the caller that started the creation
ResumeAwaitCreated(h) ==
    /\ pc[h] = "awaitCreated"
    /\ Settled(promises[loc[h].awaiting])
    /\ creating' = LockAfterAwait(creating, promises[loc[h].awaiting])
    /\ IF promises[loc[h].awaiting] = "rejected" THEN SetupThrew(h) ELSE SetupReturned(h)
    /\ UNCHANGED <<timerVars, alertVars, changes, store, moduleVars, promises, surface, badgeText, badgeColor,
                   timers, alerts, ev, loc>>

\* resumption of line 169: the play request was answered (ok) or the send
\* rejected; then line 126 (handleTitleChange) or line 104 (handlePlaySound)
ResumeSendMessage(h, ok) ==
    /\ pc[h] = "sendMessage"
    /\ IF ~ok
       THEN /\ pc' = [pc EXCEPT ![h] = "failed"]
            /\ UNCHANGED <<alerts, obs>>
       ELSE IF ev[h].kind = "tab"
       THEN /\ CallUpdateCounterAndBadge(h)
            /\ UNCHANGED alerts
       ELSE /\ sendNotification(h)
            /\ pc' = [pc EXCEPT ![h] = "done"]
    /\ UNCHANGED <<timerVars, alertVars, changes, store, creating, moduleVars, promises, surface, badgeText,
                   badgeColor, timers, ev, loc>>

-----------------------------------------------------------------------------
(* updateCounterAndBadge and updateBadge                                   *)

\* `await getValueFromStorage(CONFIG.COUNTER, 0) + count`
NewCounter(stored, count) == stored + count

\* resumption of line 161
ResumeGetCounter(h) ==
    /\ pc[h] = "getCounter"
    /\ loc' = [loc EXCEPT ![h].counter =
                 NewCounter(getValueFromStorage("counter", 0), obs[h].counted)]
    /\ pc' = [pc EXCEPT ![h] = "setCounter"]
    /\ UNCHANGED <<timerVars, alertVars, changes, store, creating, moduleVars, promises, surface, badgeText,
                   badgeColor, timers, alerts, ev, obs>>

\* resumption of line 162, then updateBadge(count) up to its first await
ResumeSetCounter(h) ==
    /\ pc[h] = "setCounter"
    /\ store' = [store EXCEPT !.counter = <<loc[h].counter>>]
    /\ pc' = [pc EXCEPT ![h] = "setBadgeText"]
    /\ UNCHANGED <<timerVars, alertVars, changes, creating, moduleVars, promises, surface, badgeText, badgeColor,
                   timers, alerts, ev, loc, obs>>

\* the text updateBadge(count) sets: count.toString()
BadgeTextOf(h) == toString(obs[h].counted)

\* resumption of line 152
ResumeSetBadgeText(h) ==
    /\ pc[h] = "setBadgeText"
    /\ badgeText' = BadgeTextOf(h)
    /\ pc' = [pc EXCEPT ![h] = "setBadgeColor"]
    /\ UNCHANGED <<timerVars, alertVars, changes, store, creating, moduleVars, promises, surface, badgeColor,
                   timers, alerts, ev, loc, obs>>

\* A variant that cancels the pending clears and schedules a single one.
TimersAfterUpdateBadgeCoalesced(n) == 1

\* A variant that schedules no clearing timer.
TimersAfterUpdateBadgeNone(n) == n

\* setTimeout(..., 20000) in updateBadge
TimersAfterUpdateBadge(n) == n + 1

\* resumption of line 153, then the timer is scheduled and the handler returns
ResumeSetBadgeColor(h) ==
    /\ pc[h] = "setBadgeColor"
    /\ badgeColor' = BadgeColor
    /\ timers' = TimersAfterUpdateBadge(timers)
    /\ pc' = [pc EXCEPT ![h] = "done"]
    /\ UNCHANGED <<timerVars, alertVars, changes, store, creating, moduleVars, promises, surface, badgeText,
                   alerts, ev, loc, obs>>

\* one 20 s timer fires: its callback calls setBadgeText({text: ''}) and
\* suspends at the await
TimerFires ==
    /\ timers > 0
    /\ timers' = timers - 1
    /\ clearing' = clearing + 1
    /\ UNCHANGED <<welcomeTimers, alertVars, changes, store, creating, moduleVars, promises,
                   surface, badgeText, badgeColor, alerts, pc, ev, loc, obs>>

\* resumption of line 156: the call of a timer callback completes
TimerBadgeCleared ==
    /\ clearing > 0
    /\ clearing' = clearing - 1
    /\ badgeText' = <<>>
    /\ UNCHANGED <<welcomeTimers, alertVars, changes, store, creating, moduleVars, promises,
                   surface, badgeColor, timers, alerts, pc, ev, loc, obs>>

-----------------------------------------------------------------------------
(* Messages and settings                                                   *)

\* A variant that processes a message whatever its target.
ForAnyTarget(m) == TRUE

\* `if (message.target !== 'background') return;`
ForBackground(m) == m.target = "background"

\* handleMessages called: runs up to the first await of the selected branch
MessageReceived(h, m) ==
    /\ Deliverable(h)
    /\ m \in MsgEvents
    /\ ev' = [ev EXCEPT ![h] = m]
    /\ IF ~ForBackground(m)
       THEN /\ pc' = [pc EXCEPT ![h] = "done"]
            /\ obs' = ObsOnDelivery(h)
            /\ UNCHANGED alerts
       ELSE IF m.type = "play-sound"
       THEN /\ pc' = [pc EXCEPT ![h] = "getAudio"]
            /\ obs' = ObsOnDelivery(h)
            /\ UNCHANGED alerts
       ELSE IF m.type = "show-notification"
       THEN /\ pc' = [pc EXCEPT ![h] = "done"]
            /\ obs' = [ObsOnDelivery(h) EXCEPT ![h].notified = TRUE]
            /\ alerts' = alerts + 1
       ELSE IF m.type = "clear-badge"
       THEN /\ pc' = [pc EXCEPT ![h] = "clearBadge"]
            /\ obs' = ObsOnDelivery(h)
            /\ UNCHANGED alerts
       ELSE /\ pc' = [pc EXCEPT ![h] = "done"]
            /\ obs' = ObsOnDelivery(h)
            /\ UNCHANGED alerts
    /\ UNCHANGED <<timerVars, alertVars, changes, store, creating, moduleVars, promises, surface, badgeText,
                   badgeColor, timers, loc>>

\* resumption of line 207 (clearBadge)
ResumeClearBadge(h) ==
    /\ pc[h] = "clearBadge"
    /\ badgeText' = <<>>
    /\ pc' = [pc EXCEPT ![h] = "done"]
    /\ UNCHANGED <<timerVars, alertVars, changes, store, creating, moduleVars, promises, surface, badgeColor,
                   timers, alerts, ev, loc, obs>>

\* the settings page writes one of the settings this worker reads
SettingChanged(key, value) ==
    /\ changes < MaxSettingChanges
    /\ store[key] # <<value>>
    /\ store' = [store EXCEPT ![key] = <<value>>]
    /\ changes' = changes + 1
    /\ UNCHANGED <<timerVars, alertVars, creating, moduleVars, promises, surface, badgeText, badgeColor,
                   timers, alerts, pc, ev, loc, obs>>

-----------------------------------------------------------------------------
(* Installation and browser start                                          *)

\* handleInstallation called: `if (details.reason === "install")`, then
\* setInitialValues up to `await chrome.storage.sync.set(initialValues)`
InstalledReceived(h, e) ==
    /\ Deliverable(h)
    /\ e \in InstalledEvents
    /\ ev' = [ev EXCEPT ![h] = e]
    /\ pc' = [pc EXCEPT ![h] = IF e.reason = "install" THEN "setInitialValues" ELSE "done"]
    /\ obs' = ObsOnDelivery(h)
    /\ UNCHANGED <<timerVars, alertVars, changes, store, creating, moduleVars, promises,
                   surface, badgeText, badgeColor, timers, alerts, loc>>

\* initialValues of setInitialValues, written by one storage.sync.set
setInitialValues(st) ==
    [st EXCEPT !.audioActive = <<TRUE>>, !.audio = <<"alert1.mp3">>,
               !.showNotification = <<TRUE>>, !.volume = <<100>>]

\* resumption of line 138 and of line 67, then setTimeout(openWelcomePage, 1000)
ResumeSetInitialValues(h) ==
    /\ pc[h] = "setInitialValues"
    /\ store' = setInitialValues(store)
    /\ welcomeTimers' = welcomeTimers + 1
    /\ pc' = [pc EXCEPT ![h] = "done"]
    /\ UNCHANGED <<clearing, alertVars, changes, creating, moduleVars, promises, surface,
                   badgeText, badgeColor, timers, alerts, ev, loc, obs>>

\* the 1 s timer fires: openWelcomePage()
openWelcomePage ==
    /\ welcomeTimers > 0
    /\ welcomeTimers' = welcomeTimers - 1
    /\ tabs' = Append(tabs, [url |-> WELCOME_URL, active |-> TRUE])
    /\ UNCHANGED <<clearing, clicks, clears, changes, store, creating, moduleVars, promises,
                   surface, badgeText, badgeColor, timers, alerts, pc, ev, loc, obs>>

\* openProlificOnStartup called: runs up to its read of OPEN_PROLIFIC
StartupReceived(h) ==
    /\ Deliverable(h)
    /\ ev' = [ev EXCEPT ![h] = StartupEvent]
    /\ pc' = [pc EXCEPT ![h] = "getOpenProlific"]
    /\ obs' = ObsOnDelivery(h)
    /\ UNCHANGED <<timerVars, alertVars, changes, store, creating, moduleVars, promises,
                   surface, badgeText, badgeColor, timers, alerts, loc>>

\* resumption of line 73: chrome.tabs.create({url: PROLIFIC_URL, active: false})
\* is called when the setting is on
ResumeGetOpenProlific(h) ==
    /\ pc[h] = "getOpenProlific"
    /\ IF getValueFromStorage("openProlific", FALSE)
       THEN /\ tabs' = Append(tabs, [url |-> PROLIFIC_URL, active |-> FALSE])
            /\ pc' = [pc EXCEPT ![h] = "createTab"]
       ELSE /\ pc' = [pc EXCEPT ![h] = "done"]
            /\ UNCHANGED tabs
    /\ UNCHANGED <<timerVars, clicks, clears, changes, store, creating, moduleVars, promises,
                   surface, badgeText, badgeColor, timers, alerts, ev, loc, obs>>

\* resumption of line 74
ResumeCreateTab(h) ==
    /\ pc[h] = "createTab"
    /\ pc' = [pc EXCEPT ![h] = "done"]
    /\ UNCHANGED <<timerVars, alertVars, changes, store, creating, moduleVars, promises,
                   surface, badgeText, badgeColor, timers, alerts, ev, loc, obs>>

-----------------------------------------------------------------------------
(* Alert interaction                                                       *)

\* the alert with this id was created and not cleared: the user can click it
Displayed(id) ==
    /\ id \in 1..alerts
    /\ \A i \in DOMAIN clears : clears[i] # id

\* openProlificTab(): chrome.tabs.create({url: PROLIFIC_URL, active: true})
openProlificTab == tabs' = Append(tabs, [url |-> PROLIFIC_URL, active |-> TRUE])

\* handleNotificationClick(notificationId): synchronous, no await
handleNotificationClick(notificationId) ==
    /\ Len(clicks) < MaxClicks
    /\ Displayed(notificationId)
    /\ clicks' = Append(clicks, [id |-> notificationId, button |-> <<>>])
    /\ openProlificTab
    /\ clears' = Append(clears, notificationId)
    /\ UNCHANGED <<timerVars, changes, store, creating, moduleVars, promises, surface,
                   badgeText, badgeColor, timers, alerts, pc, ev, loc, obs>>

\* A variant that opens the page for either button.
ButtonOpensTabAny(buttonIndex) == TRUE

\* `if (buttonIndex === 0)`
ButtonOpensTab(buttonIndex) == buttonIndex = 0

\* handleNotificationButtonClick(notificationId, buttonIndex): synchronous
handleNotificationButtonClick(notificationId, buttonIndex) ==
    /\ Len(clicks) < MaxClicks
    /\ Displayed(notificationId)
    /\ clicks' = Append(clicks, [id |-> notificationId, button |-> <<buttonIndex>>])
    /\ IF ButtonOpensTab(buttonIndex) THEN openProlificTab ELSE UNCHANGED tabs
    /\ clears' = Append(clears, notificationId)
    /\ UNCHANGED <<timerVars, changes, store, creating, moduleVars, promises, surface,
                   badgeText, badgeColor, timers, alerts, pc, ev, loc, obs>>

-----------------------------------------------------------------------------

Next ==
    \/ \E h \in Procs, e \in TabEvents : TabUpdated(h, e)
    \/ \E h \in Procs, m \in MsgEvents : MessageReceived(h, m)
    \/ \E h \in Procs : ResumeGetTitle(h)
    \/ \E h \in Procs : ResumeSetTitle(h)
    \/ \E h \in Procs : ResumeGetShow(h)
    \/ \E h \in Procs : ResumeGetAudioActive(h)
    \/ \E h \in Procs : ResumeGetAudio(h)
    \/ \E h \in Procs : ResumeGetVolume(h)
    \/ \E h \in Procs : ResumeGetContexts(h)
    \/ \E p \in 1..NumHandlers, ok \in BOOLEAN : CreationSettles(p, ok)
    \/ \E h \in Procs : ResumeAwaitCreating(h)
    \/ \E h \in Procs : ResumeAwaitCreated(h)
    \/ \E h \in Procs, ok \in BOOLEAN : ResumeSendMessage(h, ok)
    \/ \E h \in Procs : ResumeGetCounter(h)
    \/ \E h \in Procs : ResumeSetCounter(h)
    \/ \E h \in Procs : ResumeSetBadgeText(h)
    \/ \E h \in Procs : ResumeSetBadgeColor(h)
    \/ \E h \in Procs : ResumeClearBadge(h)
    \/ TimerFires
    \/ TimerBadgeCleared
    \/ \E h \in Procs, e \in InstalledEvents : InstalledReceived(h, e)
    \/ \E h \in Procs : ResumeSetInitialValues(h)
    \/ openWelcomePage
    \/ \E h \in Procs : StartupReceived(h)
    \/ \E h \in Procs : ResumeGetOpenProlific(h)
    \/ \E h \in Procs : ResumeCreateTab(h)
    \/ \E key \in {"showNotification", "audioActive", "openProlific"}, value \in BOOLEAN :
          SettingChanged(key, value)
    \/ \E value \in AudioFiles : SettingChanged("audio", value)
    \/ \E id \in 1..NumHandlers : handleNotificationClick(id)
    \/ \E id \in 1..NumHandlers, buttonIndex \in {0, 1} :
          handleNotificationButtonClick(id, buttonIndex)

Spec == Init /\ [][Next]_vars

\* the continuations of handler h
HandlerStep(h) ==
    \/ ResumeGetTitle(h)
    \/ ResumeSetTitle(h)
    \/ ResumeGetShow(h)
    \/ ResumeGetAudioActive(h)
    \/ ResumeGetAudio(h)
    \/ ResumeGetVolume(h)
    \/ ResumeGetContexts(h)
    \/ ResumeAwaitCreating(h)
    \/ ResumeAwaitCreated(h)
    \/ \E ok \in BOOLEAN : ResumeSendMessage(h, ok)
    \/ ResumeGetCounter(h)
    \/ ResumeSetCounter(h)
    \/ ResumeSetBadgeText(h)
    \/ ResumeSetBadgeColor(h)
    \/ ResumeClearBadge(h)
    \/ ResumeSetInitialValues(h)
    \/ ResumeGetOpenProlific(h)
    \/ ResumeCreateTab(h)

\* the 'play-sound' message addressed to this worker
PlaySound ==
    [kind |-> "msg", url |-> <<>>, status |-> "", title |-> <<>>,
     target |-> "background", type |-> "play-sound", reason |-> ""]

\* The callers of playAudio alone: 'play-sound' messages, whose handlers go
\* from the settings reads straight into setupOffscreenDocument.
GuardNext ==
    \/ \E h \in Procs : MessageReceived(h, PlaySound)
    \/ \E h \in Procs : ResumeGetAudio(h)
    \/ \E h \in Procs : ResumeGetVolume(h)
    \/ \E h \in Procs : ResumeGetContexts(h)
    \/ \E p \in 1..NumHandlers, ok \in BOOLEAN : CreationSettles(p, ok)
    \/ \E h \in Procs : ResumeAwaitCreating(h)
    \/ \E h \in Procs : ResumeAwaitCreated(h)
    \/ \E h \in Procs, ok \in BOOLEAN : ResumeSendMessage(h, ok)

GuardSpec == Init /\ [][GuardNext]_vars

\* The title monitor alone: tab-update events and everything their handlers
\* do, with the settings as the store holds them when the worker starts.
TitleNext ==
    \/ \E h \in Procs, e \in TabEvents : TabUpdated(h, e)
    \/ \E h \in Procs : ResumeGetTitle(h)
    \/ \E h \in Procs : ResumeSetTitle(h)
    \/ \E h \in Procs : ResumeGetShow(h)
    \/ \E h \in Procs : ResumeGetAudioActive(h)
    \/ \E h \in Procs : ResumeGetAudio(h)
    \/ \E h \in Procs : ResumeGetVolume(h)
    \/ \E h \in Procs : ResumeGetContexts(h)
    \/ \E p \in 1..NumHandlers, ok \in BOOLEAN : CreationSettles(p, ok)
    \/ \E h \in Procs : ResumeAwaitCreating(h)
    \/ \E h \in Procs : ResumeAwaitCreated(h)
    \/ \E h \in Procs, ok \in BOOLEAN : ResumeSendMessage(h, ok)
    \/ \E h \in Procs : ResumeGetCounter(h)
    \/ \E h \in Procs : ResumeSetCounter(h)
    \/ \E h \in Procs : ResumeSetBadgeText(h)
    \/ \E h \in Procs : ResumeSetBadgeColor(h)
    \/ TimerFires
    \/ TimerBadgeCleared

TitleSpec == Init /\ [][TitleNext]_vars

\* The title monitor within one badge window: the handlers of tab-update
\* events run, and no 20 s timer comes due yet.
DispatchNext ==
    \/ \E h \in Procs, e \in TabEvents : TabUpdated(h, e)
    \/ \E h \in Procs : ResumeGetTitle(h)
    \/ \E h \in Procs : ResumeSetTitle(h)
    \/ \E h \in Procs : ResumeGetShow(h)
    \/ \E h \in Procs : ResumeGetAudioActive(h)
    \/ \E h \in Procs : ResumeGetAudio(h)
    \/ \E h \in Procs : ResumeGetVolume(h)
    \/ \E h \in Procs : ResumeGetContexts(h)
    \/ \E p \in 1..NumHandlers, ok \in BOOLEAN : CreationSettles(p, ok)
    \/ \E h \in Procs : ResumeAwaitCreating(h)
    \/ \E h \in Procs : ResumeAwaitCreated(h)
    \/ \E h \in Procs, ok \in BOOLEAN : ResumeSendMessage(h, ok)
    \/ \E h \in Procs : ResumeGetCounter(h)
    \/ \E h \in Procs : ResumeSetCounter(h)
    \/ \E h \in Procs : ResumeSetBadgeText(h)
    \/ \E h \in Procs : ResumeSetBadgeColor(h)

DispatchSpec == Init /\ [][DispatchNext]_vars

\* The message side alone: every inbound message, everything its handler
\* does, and the clicks on the alerts these handlers create.
MessageNext ==
    \/ \E h \in Procs, m \in MsgEvents : MessageReceived(h, m)
    \/ \E h \in Procs : ResumeGetAudio(h)
    \/ \E h \in Procs : ResumeGetVolume(h)
    \/ \E h \in Procs : ResumeGetContexts(h)
    \/ \E p \in 1..NumHandlers, ok \in BOOLEAN : CreationSettles(p, ok)
    \/ \E h \in Procs : ResumeAwaitCreating(h)
    \/ \E h \in Procs : ResumeAwaitCreated(h)
    \/ \E h \in Procs, ok \in BOOLEAN : ResumeSendMessage(h, ok)
    \/ \E h \in Procs : ResumeClearBadge(h)
    \/ \E id \in 1..NumHandlers : handleNotificationClick(id)
    \/ \E id \in 1..NumHandlers, buttonIndex \in {0, 1} :
          handleNotificationButtonClick(id, buttonIndex)

MessageSpec == Init /\ [][MessageNext]_vars

\* what the event loop and the browser do on their own: run a continuation
\* that is ready, answer createDocument, fire a timer that is due
Progress ==
    \/ \E h \in Procs : HandlerStep(h)
    \/ \E p \in 1..NumHandlers, ok \in BOOLEAN : CreationSettles(p, ok)
    \/ TimerFires
    \/ TimerBadgeCleared
    \/ openWelcomePage

\* the title monitor with the event loop never stopping while work is ready;
\* events may or may not come
FairTitleSpec == TitleSpec /\ WF_vars(Progress)

-----------------------------------------------------------------------------
(* Vocabulary of the properties                                            *)

IsTab(h) == ev[h].kind = "tab"

\* the delta handler h computed in handleTitleChange
Delta(h) == loc[h].currentNumber - loc[h].previousNumber

\* handler h passed the gate and the test of line 113: a qualifying update
Qualifying(h) ==
    /\ IsTab(h)
    /\ obs[h].passed
    /\ trim(ev[h].title) # EmptyStateLabel
    /\ Delta(h) > 0

\* handler h is between line 113 and the end of updateBadge
Dispatching(h) ==
    /\ IsTab(h)
    /\ pc[h] \in {"getShow", "getAudioActive", "getAudio", "getVolume", "getContexts",
                  "awaitCreating", "awaitCreated", "sendMessage", "getCounter",
                  "setCounter", "setBadgeText", "setBadgeColor"}

\* handler h is past the read of showNotification
PastShow(h) == Qualifying(h) /\ pc[h] \notin {"setTitle", "getShow"}

Quiescent == \A h \in Procs : ~InProgress(h)

CreateCalls == Len(promises)

-----------------------------------------------------------------------------
(* C1: when several callers of setupOffscreenDocument find no surface      *)
(* before the first creation completes, createDocument is called exactly  *)
(* once, every caller that resolved did so on a fulfilled creation and    *)
(* every caller that rejected did so on a rejected one.                    *)
C1_SingleCreation ==
    /\ CreateCalls <= 1
    /\ \A h \in Procs :
        /\ obs[h].sawEmpty => CreateCalls = 1
        /\ (obs[h].sawEmpty /\ obs[h].setup = "ok") => promises = <<"fulfilled">>
        /\ obs[h].setup = "err" => (obs[h].sawEmpty /\ promises = <<"rejected">>)
        /\ (obs[h].sawEmpty /\ promises = <<"fulfilled">>) => obs[h].setup # "err"
        /\ (obs[h].sawEmpty /\ promises = <<"rejected">>) => obs[h].setup # "ok"

\* two callers found no surface, one creation was made, both resolved
C1_Witness ==
    \E h1, h2 \in Procs :
        /\ h1 # h2
        /\ obs[h1].sawEmpty /\ obs[h2].sawEmpty
        /\ obs[h1].setup = "ok" /\ obs[h2].setup = "ok"
        /\ CreateCalls = 1

(* C2: the creation lock is cleared on every exit path of the creating    *)
(* caller: once a creation has settled and the caller that started it has *)
(* resumed, `creating` no longer holds that creation.                      *)
C2_LockReleasedOnEveryExit ==
    \A p \in DOMAIN promises :
        ( /\ promises[p] # "pending"
          /\ ~ \E h \in Procs : pc[h] = "awaitCreated" /\ loc[h].awaiting = p )
        => creating # p

(* C3: two title updates that carry the same new title never both dispatch *)
(* the increase, however their handlers overlap.                           *)
C3_NoDoubleFire ==
    \A h1, h2 \in Procs :
        (h1 # h2 /\ IsTab(h1) /\ IsTab(h2) /\ ev[h1].title = ev[h2].title)
        => ~(Dispatching(h1) /\ Dispatching(h2))

(* C4: a title update that passes the gate and is handled without another *)
(* handler interleaving, with delta > 0, invokes the badge counter with   *)
(* exactly delta and completes the counter and badge update.               *)
C4_SoloDeltaCounted ==
    \A h \in Procs :
        (IsTab(h) /\ obs[h].solo /\ obs[h].passed /\ Delta(h) > 0 /\ pc[h] \in Finished)
        => (obs[h].counted = Delta(h) /\ pc[h] = "done")

\* a handler that passed the gate without an increase has dispatched nothing
C5_NoDispatchWithoutIncrease ==
    \A h \in Procs :
        (IsTab(h) /\ obs[h].passed /\ ~Qualifying(h))
        => /\ ~obs[h].notified
           /\ ~obs[h].played
           /\ obs[h].counted = 0
           /\ pc[h] \in {"setTitle", "done"}

\* the step that completes the write of line 111 stores the handler's title
C5_BaselineWritten ==
    \A h \in Procs :
        (pc[h] = "setTitle" /\ pc'[h] # "setTitle")
        => store'.prolificTitle = <<ev[h].title>>

(* C5: every title update that passes the gate persists its title as the  *)
(* baseline; and when its count does not exceed the baseline's count (or   *)
(* the title is the empty-state label) it creates no notification, sends   *)
(* no play request and never enters the counter and badge update.          *)
C5_PersistAndNoDispatch ==
    /\ [](\A h \in Procs : obs[h].passed => pc[h] # "getTitle")
    /\ []C5_NoDispatchWithoutIncrease
    /\ [][C5_BaselineWritten]_vars

\* a title update with a smaller count finished: baseline moved, nothing dispatched
C5_Witness ==
    \E h \in Procs :
        /\ IsTab(h) /\ obs[h].passed /\ Delta(h) < 0
        /\ pc[h] = "done"
        /\ store.prolificTitle = <<ev[h].title>>
        /\ alerts = 0

(* C6: a write to the persisted counter never stores a value smaller than  *)
(* the value stored before it.                                             *)
C6_CounterNeverDecreases ==
    \A h \in Procs :
        pc[h] = "setCounter" => loc[h].counter >= getValueFromStorage("counter", 0)

\* a title-update event for the watched page that carries a title
Observed(h) ==
    /\ pc[h] # "idle"
    /\ IsTab(h)
    /\ includes(ev[h].url, PROLIFIC_URL)
    /\ ev[h].status = "complete"
    /\ ev[h].title # <<>>

\* the most recently delivered one
LatestObserved == CHOOSE h \in Procs : Observed(h) /\ \A k \in Procs : Observed(k) => k <= h

(* C7: whenever no handler is in progress, the persisted baseline is the   *)
(* title of the most recently delivered title update of the watched page.  *)
C7_BaselineIsLatestTitle ==
    (Quiescent /\ \E h \in Procs : Observed(h))
    => getValueFromStorage("prolificTitle", EmptyStateLabel) = ev[LatestObserved].title

(* C8 as stated: every qualifying title update creates an alert, whatever  *)
(* the settings.                                                           *)
C8_AlertUnconditional ==
    \A h \in Procs : PastShow(h) => obs[h].notified

\* the step that completes the read of line 114 adds an alert iff the setting is on
C8_AlertStep ==
    \A h \in Procs :
        (pc[h] = "getShow" /\ pc'[h] # "getShow")
        => alerts' = alerts + (IF getValueFromStorage("showNotification", TRUE) THEN 1 ELSE 0)

(* C8 as amended: a qualifying title update creates one new alert exactly  *)
(* when the showNotification setting it reads (default true) is true,      *)
(* whatever audioActive is and however many alerts were created before.    *)
C8_AlertIffSettingOn ==
    /\ [](\A h \in Procs : (Qualifying(h) /\ pc[h] # "setTitle") =>
                           (pc[h] = "getShow" \/ PastShow(h)))
    /\ [](\A h \in Procs : (Qualifying(h) /\ obs[h].notified) => alerts >= 1)
    /\ [][C8_AlertStep]_vars

\* a qualifying update read the setting switched off and created no alert
C8_Witness ==
    \E h \in Procs :
        /\ PastShow(h) /\ ~obs[h].notified
        /\ store.showNotification = <<FALSE>>
        /\ alerts = 0

(* C9: every qualifying title update forwards its delta to the badge       *)
(* counter, whether audio is on or off and whether the surface creation    *)
(* or the play request succeeds or fails.                                  *)
C9_DeltaAlwaysCounted ==
    \A h \in Procs :
        (Qualifying(h) /\ pc[h] \in Finished) => obs[h].counted = Delta(h)

\* the step that completes line 152 shows the increment
C10_BadgeShowsDelta ==
    \A h \in Procs :
        (pc[h] = "setBadgeText" /\ pc'[h] # "setBadgeText")
        => badgeText' = toString(getNumberFromTitle(ev[h].title) - loc[h].previousNumber)

\* every scheduled clear has fired and its callback has run to its end
TimersDone == timers = 0 /\ clearing = 0

(* C10: updateBadge sets the badge text to the decimal string of the       *)
(* delta; a badge text that is set is eventually cleared; and once no      *)
(* handler runs and every timer has fired and its callback has completed,  *)
(* the badge text is empty.                                                *)
C10_BadgeCleared ==
    /\ []((Quiescent /\ TimersDone) => badgeText = <<>>)
    /\ [][C10_BadgeShowsDelta]_vars
    /\ (badgeText # <<>>) ~> (badgeText = <<>>)

\* an increase of 11 was shown, its timer fired, the badge is empty again
C10_Witness ==
    \E h \in Procs :
        /\ pc[h] = "done" /\ obs[h].counted = 11
        /\ badgeColor = BadgeColor
        /\ TimersDone
        /\ badgeText = <<>>

\* the calls that opened the watched page in a new foreground tab
ForegroundTabs ==
    { t \in DOMAIN tabs : tabs[t] = [url |-> PROLIFIC_URL, active |-> TRUE] }

\* the step that handles one click event
ClickHandled == Len(clicks') = Len(clicks) + 1

(* C11: a click on the alert body or on button 0 opens the watched page in *)
(* a new foreground tab and clears that alert; a click on button 1 clears  *)
(* that alert and opens no tab; every click event makes exactly one clear  *)
(* call, for the id it was delivered with.                                 *)
C11_ClickContract ==
    /\ [](Len(clears) = Len(clicks))
    /\ [](Cardinality(ForegroundTabs) =
            Cardinality({ i \in DOMAIN clicks : clicks[i].button \in {<<>>, <<0>>} }))
    /\ [](\A i \in DOMAIN clicks :
         /\ i \in DOMAIN clears
         /\ clears[i] = clicks[i].id
         /\ ~Displayed(clicks[i].id))
    /\ [][ClickHandled =>
            /\ clears' = Append(clears, clicks'[Len(clicks')].id)
            /\ tabs' = IF clicks'[Len(clicks')].button \in {<<>>, <<0>>}
                       THEN Append(tabs, [url |-> PROLIFIC_URL, active |-> TRUE])
                       ELSE tabs]_vars

\* the second of two alerts was dismissed with button 1: cleared, no tab
C11_Witness ==
    /\ alerts = 2
    /\ clicks = <<[id |-> 2, button |-> <<1>>]>>
    /\ clears = <<2>>
    /\ ForegroundTabs = {}
    /\ Displayed(1)

\* the state a message handler must leave alone when it ignores the message
MessageFrame ==
    <<store, creating, moduleVars, promises, surface, badgeText, badgeColor,
      timers, timerVars, alerts, alertVars, changes, loc>>

\* the step that delivers a message to handler h, when the message is not
\* addressed to the worker or its type is none of the three known ones
IgnoredDelivery(h) ==
    /\ pc[h] = "idle"
    /\ pc'[h] # "idle"
    /\ ev'[h].kind = "msg"
    /\ \/ ev'[h].target # "background"
       \/ ev'[h].type \notin {"play-sound", "show-notification", "clear-badge"}

(* C12: an inbound message whose target is not 'background', or whose type *)
(* is none of 'play-sound', 'show-notification', 'clear-badge', has no     *)
(* effect: its handler returns at once, settings, counter, baseline,       *)
(* badge, lock and surface are unchanged and no notification or play       *)
(* request is issued.                                                      *)
C12_IgnoredMessageNoEffect ==
    /\ [][\A h \in Procs : IgnoredDelivery(h) =>
            /\ pc'[h] = "done"
            /\ UNCHANGED MessageFrame
            /\ ~obs'[h].notified /\ ~obs'[h].played /\ obs'[h].setup = "none"]_vars
    /\ [](\A h \in Procs :
            (ev[h].kind = "msg" /\ ev[h].target # "background")
            => (pc[h] = "done" /\ ~obs[h].notified /\ ~obs[h].played))

\* a play-sound message for the offscreen document and a message of unknown
\* type were both delivered to this worker and nothing happened
C12_Witness ==
    \E h1, h2 \in Procs :
        /\ ev[h1].kind = "msg" /\ ev[h1].target = "offscreen-doc" /\ ev[h1].type = "play-sound"
        /\ ev[h2].kind = "msg" /\ ev[h2].target = "background" /\ ev[h2].type = "other"
        /\ pc[h1] = "done" /\ pc[h2] = "done"
        /\ alerts = 0 /\ promises = <<>>

\* the creations that have been started and have not settled
InFlight == { p \in DOMAIN promises : promises[p] = "pending" }

\* handler h is suspended in setupOffscreenDocument on a creation
AwaitingCreation(h) == pc[h] \in {"awaitCreating", "awaitCreated"}

\* the step in which handler h resumes from the introspection query
IntrospectionAnswered(h) == pc[h] = "getContexts" /\ pc'[h] # "getContexts"

(* C13: when the introspection query reports an existing surface, the call *)
(* returns successfully, no creation call is made and the creation lock is *)
(* neither taken as the promise to await nor changed.                      *)
C13_ExistingSurfaceNoCreation ==
    /\ [][\A h \in Procs : (IntrospectionAnswered(h) /\ surface) =>
            /\ pc'[h] = "sendMessage"
            /\ obs'[h].setup = "ok"
            /\ promises' = promises
            /\ creating' = creating
            /\ loc'[h].awaiting = 0]_vars
    /\ [](\A h \in Procs : (obs[h].setup # "none" /\ ~obs[h].sawEmpty) =>
            (obs[h].setup = "ok" /\ loc[h].awaiting = 0))

\* a caller returned on the introspection answer while the lock still held
\* the creation that made the surface
C13_Witness ==
    \E h \in Procs :
        /\ obs[h].setup = "ok" /\ ~obs[h].sawEmpty
        /\ creating # 0
        /\ promises = <<"fulfilled">>

(* C14: at most one surface creation is in flight, a creation is in flight *)
(* only while the lock is non-null and holds it, and the caller that finds *)
(* the lock empty sets it in the same step, with no suspension between.    *)
C14_OneCreationInFlight ==
    /\ [](Cardinality(InFlight) <= 1)
    /\ [](\A p \in InFlight : creating = p)
    /\ [][promises' # promises /\ Len(promises') > Len(promises) =>
            /\ creating = 0
            /\ creating' = Len(promises')
            /\ InFlight = {}]_vars

\* two concurrent callers wait on the one creation in flight
C14_Witness ==
    \E h1, h2 \in Procs :
        /\ pc[h1] = "awaitCreated" /\ pc[h2] = "awaitCreating"
        /\ promises = <<"pending">>
        /\ creating = 1

(* C15: when a surface creation fails, every caller awaiting it (the       *)
(* creator and the callers that found the lock set) rejects, none of them  *)
(* sends a play request, and no further creation is started for them.      *)
C15_FailurePropagates ==
    /\ [][\A h \in Procs :
            (AwaitingCreation(h) /\ ~AwaitingCreation(h)' /\
             promises[loc[h].awaiting] = "rejected") =>
            /\ pc'[h] = "failed"
            /\ obs'[h].setup = "err"
            /\ promises' = promises]_vars
    /\ [](\A h \in Procs :
            (obs[h].sawEmpty /\ ~AwaitingCreation(h) /\ pc[h] # "getContexts" /\
             promises[loc[h].awaiting] = "rejected") =>
            (pc[h] = "failed" /\ obs[h].setup = "err" /\ ~obs[h].played))

\* the creator and a waiter both rejected on the one failed creation
C15_Witness ==
    \E h1, h2 \in Procs :
        /\ h1 # h2
        /\ loc[h1].awaiting = 1 /\ loc[h2].awaiting = 1
        /\ obs[h1].setup = "err" /\ obs[h2].setup = "err"
        /\ pc[h1] = "failed" /\ pc[h2] = "failed"
        /\ promises = <<"rejected">>

(* C20: a play request is sent only after setupOffscreenDocument returned  *)
(* successfully for that request: introspection reported a surface, or the *)
(* creation the caller awaited was fulfilled; never while that creation is *)
(* in flight and never after it failed.                                    *)
C20_PlayOnlyAfterSetup ==
    /\ [](\A h \in Procs : obs[h].played =>
            /\ obs[h].setup = "ok"
            /\ surface
            /\ pc[h] \notin {"getAudio", "getVolume", "getContexts",
                              "awaitCreating", "awaitCreated"}
            /\ obs[h].sawEmpty => promises[loc[h].awaiting] = "fulfilled")
    /\ [][\A h \in Procs : (~obs[h].played /\ obs'[h].played) =>
            \/ (pc[h] = "getContexts" /\ surface)
            \/ (AwaitingCreation(h) /\ promises[loc[h].awaiting] = "fulfilled")]_vars

\* two concurrent callers found no surface, awaited the same creation and
\* both sent their request after it was fulfilled
C20_Witness ==
    \E h1, h2 \in Procs :
        /\ h1 # h2
        /\ obs[h1].played /\ obs[h2].played
        /\ obs[h1].sawEmpty /\ obs[h2].sawEmpty
        /\ loc[h1].awaiting = loc[h2].awaiting
        /\ pc[h1] = "done" /\ pc[h2] = "sendMessage"

\* the persisted and visible state a tab-update handler can touch
TabFrame ==
    <<store, creating, promises, surface, badgeText, badgeColor, timers, timerVars,
      alerts, alertVars>>

\* the baseline a handler resuming from line 79 reads
BaselineRead == getValueFromStorage("prolificTitle", EmptyStateLabel)

\* the event of handler h is for the watched page, finished loading, and
\* carries a title that differs from the baseline the handler reads now
Eligible(h) ==
    /\ includes(ev[h].url, PROLIFIC_URL)
    /\ ev[h].status = "complete"
    /\ ev[h].title # <<>>
    /\ ev[h].title # BaselineRead

\* the step in which handler h resumes from the read of the baseline
BaselineAnswered(h) == pc[h] = "getTitle" /\ pc'[h] # "getTitle"

(* C16: a tab-update event changes nothing of the baseline, counter,       *)
(* settings, badge, alerts, surface and lock unless the tab URL contains   *)
(* the watched URL, the status is 'complete', and the changed title is     *)
(* non-empty and differs from the baseline its handler read.               *)
C16_TabUpdateNoOpUnlessEligible ==
    /\ [][\A h \in Procs : (pc[h] = "idle" /\ pc'[h] = "getTitle") =>
            UNCHANGED TabFrame]_vars
    /\ [][\A h \in Procs : (BaselineAnswered(h) /\ ~Eligible(h)) =>
            /\ pc'[h] = "done"
            /\ ~obs'[h].passed
            /\ UNCHANGED TabFrame]_vars
    /\ [](\A h \in Procs : (IsTab(h) /\ ~obs[h].passed) =>
            /\ pc[h] \in {"getTitle", "done"}
            /\ ~obs[h].notified /\ ~obs[h].played /\ obs[h].counted = 0)
    /\ [](\A h \in Procs : obs[h].passed =>
            /\ includes(ev[h].url, PROLIFIC_URL)
            /\ ev[h].status = "complete"
            /\ ev[h].title # <<>>)

\* the same title arrived twice: the first update was dispatched, the second
\* found it as the baseline and did nothing
C16_Witness ==
    \E h1, h2 \in Procs :
        /\ h1 < h2
        /\ ev[h1] = ev[h2] /\ IsTab(h1) /\ ev[h1].title = TitleOne
        /\ ev[h1].url = WatchedTab /\ ev[h1].status = "complete"
        /\ pc[h1] = "done" /\ pc[h2] = "done"
        /\ obs[h1].passed /\ ~obs[h2].passed
        /\ store.prolificTitle = <<TitleOne>>
        /\ store.counter = <<1>>

\* the updateBadge calls that have run to their end
BadgeUpdates ==
    Cardinality({ h \in Procs : IsTab(h) /\ pc[h] = "done" /\ obs[h].counted # 0 })

(* C17: every updateBadge call schedules one clear timer of its own, and a *)
(* timer goes away only by firing, which blanks the badge whatever call    *)
(* set its text; so after two overlapping calls the badge can be blank     *)
(* while the later call's timer is still pending.                          *)
C17_IndependentTimers ==
    /\ [](timers <= BadgeUpdates)
    /\ [][\A h \in Procs : (pc[h] = "setBadgeColor" /\ pc'[h] # "setBadgeColor") =>
            timers' = timers + 1]_vars
    /\ [][timers' > timers =>
            \E h \in Procs : pc[h] = "setBadgeColor" /\ pc'[h] = "done"]_vars
    /\ [][timers' < timers => (timers' = timers - 1 /\ clearing' = clearing + 1)]_vars
    /\ [][clearing' < clearing => (clearing' = clearing - 1 /\ badgeText' = <<>>)]_vars
    /\ [][clearing' > clearing => timers' < timers]_vars

\* two updates set the badge (1, then 11); one timer has fired and blanked
\* it while the other timer is still pending
C17_Witness ==
    \E h1, h2 \in Procs :
        /\ h1 < h2
        /\ pc[h1] = "done" /\ obs[h1].counted = 1
        /\ pc[h2] = "done" /\ obs[h2].counted = 11
        /\ timers = 1 /\ clearing = 0
        /\ badgeText = <<>>

(* C18: the gate test and the delta of a title-update handler use the      *)
(* baseline this handler read from storage, although the value passes      *)
(* through the module variable previousTitle that other handlers assign.   *)
C18_DeltaAgainstOwnBaseline ==
    /\ [][\A h \in Procs : BaselineAnswered(h) =>
            /\ obs'[h].passed = Eligible(h)
            /\ obs'[h].passed =>
                 /\ loc'[h].previousNumber = getNumberFromTitle(BaselineRead)
                 /\ loc'[h].currentNumber = getNumberFromTitle(ev[h].title)]_vars
    /\ [][\A h \in Procs : obs[h].passed =>
            /\ loc'[h].previousNumber = loc[h].previousNumber
            /\ loc'[h].currentNumber = loc[h].currentNumber]_vars
    /\ [](\A h \in Procs : obs[h].counted \in {0, Delta(h)})

\* a handler that read the baseline 'Prolific' is counting its delta of 1
\* after a later handler has assigned previousTitle the title '(1)'
C18_Witness ==
    \E h1, h2 \in Procs :
        /\ h1 # h2
        /\ pc[h1] = "getCounter"
        /\ ev[h1].title = TitleOne /\ loc[h1].previousNumber = 0 /\ obs[h1].counted = 1
        /\ obs[h2].passed /\ ev[h2].title = TitleTwelve /\ loc[h2].previousNumber = 1
        /\ previousTitle = <<TitleOne>>

(* C19: the audio file and the volume in a play request are the values     *)
(* that the handler sending it read from storage itself.                   *)
C19_RequestUsesOwnReads ==
    \A h \in Procs :
        loc[h].reqAudio # <<>> => loc[h].reqAudio = loc[h].ownAudio

====
